---- MODULE Spec2Model ----
(***************************************************************************)
(* The streaming video annotation pipeline of app/model.py: get_model and  *)
(* process_video, run by the worker threads that app/main.py starts.       *)
(* A run is one call of process_video.  State shared by all runs: the      *)
(* global model handle, the tracker state kept inside a model instance,    *)
(* the file system and the wall clock.                                     *)
(***************************************************************************)
EXTENDS Integers, Sequences, FiniteSets, TLC

(* ------------------------------ bounds -------------------------------- *)
MaxFrames == 3          \* longest source, in frames
ClockStep == 30         \* seconds added by one clock advance
MaxClock == 120         \* the clock stops advancing here
ConcFrames == 1         \* longest source when two runs overlap
FairFrames == 2         \* longest source where runs are followed to their end
ConcFaults == 1         \* environment faults in all when two runs overlap

(* ------------------------- program constants -------------------------- *)
TIMEOUT_LIMIT == 60

Runs == {1, 2}          \* calls of process_video (worker threads)
ModelIds == 1..Cardinality(Runs)   \* YOLO instances that can get constructed
None == 0              \* Python's None: no model loaded yet, no run

\* A path is a sequence of pieces of its text, so that str.replace is computed.
OutputPaths == { <<"processed_clip", ".mp4">>, <<"processed_clip", ".avi">> }

RECURSIVE Replace(_)
\* str.replace('.mp4', '_temp.mp4'): every occurrence is replaced.
Replace(s) ==
  IF s = << >> THEN << >>
  ELSE (IF Head(s) = ".mp4" THEN <<"_temp", ".mp4">> ELSE <<Head(s)>>)
         \o Replace(Tail(s))

TempPath(p) == Replace(p)

Paths == OutputPaths \cup { TempPath(p) : p \in OutputPaths }

\* A file: who created it, what encoding it holds, the frames in it, and the
\* run whose VideoWriter still holds it open (None when closed).
NoFile == [id |-> None, kind |-> "none", frames |-> << >>, writer |-> None]
Exists(f, p) == f[p].kind # "none"

VARIABLES
  model,        \* the global of model.py: None or a model instance
  nModels,      \* how many times the YOLO constructor has run
  tracker,      \* per model instance: the runs whose track() calls updated it
  fs,           \* path -> file
  now,          \* time.time()
  ffmpegAvail,  \* shutil.which('ffmpeg') finds the tool
  codecs,       \* the codecs the platform can open a writer for
  lenient,      \* the platform opens a writer for a 0x0 frame size
  faults,       \* environment faults so far (counted when runs overlap)
  active,       \* the runs the service starts
  pc,           \* per run: position in process_video
  video_ok,     \* per run: the input can be opened
  srcLen,       \* per run: the true number of frames of the input
  estimate,     \* per run: CAP_PROP_FRAME_COUNT as the container reports it
  output_path,  \* per run
  temp_path,    \* per run
  yolo_model,   \* per run: local of process_video
  cap,          \* per run: "none" | "open" | "failed" | "released"
  out,          \* per run: "none" | "open" | "failed" | "released"
  attempts,     \* per run: the codecs tried, with the outcome of each
  start_time,   \* per run
  frame_count,  \* per run
  nread,        \* per run: frames cap.read() has returned
  frame,        \* per run: the frame in hand, [n, ann]
  written,      \* per run: the frames out.write() has completed, in order
  returncode,   \* per run: exit status of the tool
  err,          \* per run: the exception that left process_video
  hist          \* per run: what happened, for stating the claims

vars == << model, nModels, tracker, fs, now, faults, ffmpegAvail, codecs,
           lenient, active, pc, video_ok,
           srcLen, estimate, output_path, temp_path, yolo_model, cap, out, attempts,
           start_time, frame_count, nread, frame, written, returncode, err, hist >>

globals == << model, nModels, tracker, fs, now >>
env == << ffmpegAvail, codecs, lenient, active, video_ok, srcLen, estimate,
         output_path >>

NoFrame == [n |-> 0, ann |-> FALSE]

NoHist == [ lastCheck   |-> 0,      \* now - start_time as the last budget check saw it
            timedOut    |-> FALSE,  \* the budget check broke the loop
            failedAt    |-> 0,      \* frame whose track/plot/write raised
            failedIn    |-> "none", \* the step that raised
            abort       |-> FALSE,  \* the client of this run has disconnected
            abortAtHead |-> FALSE,  \* ... and had when the current iteration began
            foreign     |-> FALSE,  \* a track() call met state left by another run
            tool        |-> "none", \* what the tool did: "ok" | "nonzero" | "none"
            raw         |-> NoFile, \* the file the run renamed to temp_path
            transcode   |-> FALSE,  \* the transcode step was entered
            late        |-> 0 ]     \* frames written after the budget had run out

InitWith(A, L) ==
  /\ active = A
  /\ model = None /\ nModels = 0
  /\ tracker = [m \in ModelIds |-> {}]
  /\ fs = [p \in Paths |-> NoFile]
  /\ now = 0
  /\ ffmpegAvail \in BOOLEAN
  /\ codecs \in SUBSET {"mp4v", "XVID"}
  /\ pc \in [Runs -> {"idle"}]
  /\ video_ok \in [Runs -> BOOLEAN]
  /\ srcLen \in [Runs -> 0..L]
  /\ \A r \in Runs : (~video_ok[r] \/ r \notin A) => srcLen[r] = 0
  /\ \A r \in Runs : r \notin A => ~video_ok[r]
  /\ estimate \in [Runs -> 0..L]
  /\ \A r \in Runs : estimate[r] \in {0, srcLen[r]}
  /\ faults = IF Cardinality(A) = 1 THEN 0
               ELSE Cardinality({r \in A : ~video_ok[r]})
                      + Cardinality({r \in A : estimate[r] # srcLen[r]})
                      + Cardinality({"mp4v", "XVID"} \ codecs)
  /\ faults <= ConcFaults
  /\ lenient \in BOOLEAN
  /\ lenient => \E r \in A : ~video_ok[r]
  /\ output_path \in [Runs -> OutputPaths]
  /\ \A r \in Runs : r \notin A => output_path[r] = <<"processed_clip", ".mp4">>
  /\ yolo_model \in [Runs -> {None}]
  /\ cap \in [Runs -> {"none"}] /\ out \in [Runs -> {"none"}]
  /\ attempts \in [Runs -> {<< >>}]
  /\ start_time \in [Runs -> {0}] /\ frame_count \in [Runs -> {0}]
  /\ nread \in [Runs -> {0}]
  /\ frame \in [Runs -> {NoFrame}] /\ written \in [Runs -> {<< >>}]
  /\ returncode \in [Runs -> {0}] /\ err \in [Runs -> {"none"}]
  /\ temp_path \in [Runs -> {<< >>}]
  /\ hist \in [Runs -> {NoHist}]

\* One request at a time.
Init == InitWith({1}, MaxFrames)
\* Two requests whose runs overlap on the thread pool.
InitConc == InitWith(Runs, ConcFrames)
\* One request, followed to its end.
InitFair == InitWith({1}, FairFrames)

(* ------------------------------ helpers ------------------------------- *)
Set(f, r, v) == [f EXCEPT ![r] = v]

\* k faults of the environment (a codec that does not open, a call that
\* raises, a tool that fails, a tick of the clock, a client that leaves)
\* happen in this step.  A single run meets any number of them; overlapping
\* runs meet ConcFaults in all.
Fault(k) ==
  IF Cardinality(active) = 1 THEN faults' = faults
  ELSE faults + k <= ConcFaults /\ faults' = faults + k

\* Lines that leave a run's own variables alone.
SameLocals(r) ==
  UNCHANGED << yolo_model, cap, out, attempts, start_time, frame_count, nread,
               frame, written, returncode, err, temp_path >>

(* ------------------------------ get_model ----------------------------- *)
\* main.py hands process_video to a worker thread.
Call(r) ==
  /\ r \in active /\ pc[r] = "idle"
  /\ pc' = Set(pc, r, "gm_check")
  /\ UNCHANGED << globals, env, faults, hist >> /\ SameLocals(r)

\* if model is None:
GetModelCheck(r) ==
  /\ pc[r] = "gm_check"
  /\ pc' = Set(pc, r, IF model = None THEN "gm_load" ELSE "gm_return")
  /\ UNCHANGED << globals, env, faults, hist >> /\ SameLocals(r)

\* model = YOLO('yolo11m-pose.pt'); model.to(device)
GetModelLoad(r) ==
  /\ pc[r] = "gm_load"
  /\ nModels' = nModels + 1
  /\ model' = nModels + 1
  /\ pc' = Set(pc, r, "gm_return")
  /\ UNCHANGED << tracker, fs, now, env, faults, hist >> /\ SameLocals(r)

\* return model;  yolo_model = get_model()
GetModelReturn(r) ==
  /\ pc[r] = "gm_return"
  /\ yolo_model' = Set(yolo_model, r, model)
  /\ pc' = Set(pc, r, "open_cap")
  /\ UNCHANGED << globals, env, faults, hist, cap, out, attempts, start_time,
                  frame_count, nread, frame, written, returncode, err, temp_path >>

(* --------------------------- opening (60-87) -------------------------- *)
\* cap = cv2.VideoCapture(video_path): never raises; isOpened() tells.
OpenCap(r) ==
  /\ pc[r] = "open_cap"
  /\ cap' = Set(cap, r, IF video_ok[r] THEN "open" ELSE "failed")
  /\ pc' = Set(pc, r, "open_out1")
  /\ UNCHANGED << globals, env, faults, hist, yolo_model, out, attempts, start_time,
                  frame_count, nread, frame, written, returncode, err, temp_path >>

\* A VideoWriter that opens creates (or truncates) the file at the path.
NewRawFile(r) == [id |-> r, kind |-> "raw", frames |-> << >>, writer |-> r]

\* width, height = int(cap.get(...)): 0 when the capture did not open.
FrameSize(r) == IF video_ok[r] THEN 1 ELSE 0

\* cv2.VideoWriter(output_path, fourcc, fps, (width, height)): the platform
\* decides whether it opens.  The constructor can also raise, and nothing in
\* lines 60-87 catches that.
WriterOutcomes(r, codec) ==
  { IF codec \in codecs /\ (FrameSize(r) > 0 \/ lenient) THEN "opened"
                                                          ELSE "failed",
    "raised" }

\* out = cv2.VideoWriter(...) for one codec
TryCodec(r, codec, outcome, nextOk, nextFail) ==
  /\ attempts' = Set(attempts, r, Append(attempts[r], <<codec, outcome>>))
  /\ Fault(IF outcome = "raised" THEN 1 ELSE 0)
  /\ CASE outcome = "opened" ->
            /\ out' = Set(out, r, "open")
            /\ fs' = [fs EXCEPT ![output_path[r]] = NewRawFile(r)]
            /\ pc' = Set(pc, r, nextOk)
            /\ err' = err
       [] outcome = "failed" ->
            /\ out' = Set(out, r, "failed")
            /\ fs' = fs
            /\ pc' = Set(pc, r, nextFail)
            /\ err' = err
       [] outcome = "raised" ->
            /\ out' = out
            /\ fs' = fs
            /\ pc' = Set(pc, r, "raised")
            /\ err' = Set(err, r, "setup")

\* (mutant) no fallback: a failed mp4v open fails the run at once
OpenWriterMp4v_NoFallback(r) ==
  /\ pc[r] = "open_out1"
  /\ \E outcome \in WriterOutcomes(r, "mp4v") :
        TryCodec(r, "mp4v", outcome, "start_loop", "sink_fail")
  /\ UNCHANGED << model, nModels, tracker, now, env, hist, yolo_model, cap,
                  start_time, frame_count, nread, frame, written, returncode,
                  temp_path >>

\* lines 74-75: mp4v first
OpenWriterMp4v(r) ==
  /\ pc[r] = "open_out1"
  /\ \E outcome \in WriterOutcomes(r, "mp4v") :
        TryCodec(r, "mp4v", outcome, "start_loop", "open_out2")
  /\ UNCHANGED << model, nModels, tracker, now, env, hist, yolo_model, cap,
                  start_time, frame_count, nread, frame, written, returncode,
                  temp_path >>

\* lines 77-80: if not out.isOpened(): XVID
OpenWriterXvid(r) ==
  /\ pc[r] = "open_out2"
  /\ \E outcome \in WriterOutcomes(r, "XVID") :
        TryCodec(r, "XVID", outcome, "start_loop", "sink_fail")
  /\ UNCHANGED << model, nModels, tracker, now, env, hist, yolo_model, cap,
                  start_time, frame_count, nread, frame, written, returncode,
                  temp_path >>

\* lines 82-84: if not out.isOpened(): cap.release(); raise
SinkFail(r) ==
  /\ pc[r] = "sink_fail"
  /\ cap' = Set(cap, r, "released")
  /\ err' = Set(err, r, "sink_open")
  /\ pc' = Set(pc, r, "raised")
  /\ UNCHANGED << globals, env, faults, hist, yolo_model, out, attempts, start_time,
                  frame_count, nread, frame, written, returncode, temp_path >>

(* -------------------------- frame loop (89-135) ----------------------- *)
\* start_time = time.time(); frame_count = 0
StartLoop(r) ==
  /\ pc[r] = "start_loop"
  /\ start_time' = Set(start_time, r, now)
  /\ frame_count' = Set(frame_count, r, 0)
  /\ pc' = Set(pc, r, "loop_head")
  /\ UNCHANGED << globals, env, faults, hist, yolo_model, cap, out, attempts, nread,
                  frame, written, returncode, err, temp_path >>

\* (mutant) the comparison is not strict
BudgetExceeded_AtLimit(t, start) == t - start >= TIMEOUT_LIMIT

\* time.time() - start_time > TIMEOUT_LIMIT
BudgetExceeded(t, start) == t - start > TIMEOUT_LIMIT

\* (mutant) the loop has no time budget
LoopHead_NoBudget(r) ==
  /\ pc[r] = "loop_head"
  /\ pc' = Set(pc, r, IF cap[r] # "open" THEN "finally" ELSE "read")
  /\ hist' = hist
  /\ UNCHANGED << globals, env, faults >> /\ SameLocals(r)

\* while cap.isOpened(): if <timeout>: break.  The request object is not
\* looked at (lines 101-103 are comments only).
LoopHead(r) ==
  /\ pc[r] = "loop_head"
  /\ \/ /\ cap[r] # "open"
        /\ pc' = Set(pc, r, "finally")
        /\ hist' = hist
        /\ Fault(0)
     \/ /\ cap[r] = "open"
        /\ pc' = Set(pc, r, IF BudgetExceeded(now, start_time[r])
                               THEN "finally" ELSE "read")
        /\ hist' = [hist EXCEPT ![r].lastCheck = now - start_time[r],
                                ![r].timedOut = BudgetExceeded(now, start_time[r]),
                                ![r].abortAtHead = hist[r].abort]
        /\ Fault(0)
     \/ \* the budget check raises
        /\ cap[r] = "open"
        /\ pc' = Set(pc, r, "except")
        /\ hist' = [hist EXCEPT ![r].failedIn = "check"]
        /\ Fault(1)
  /\ UNCHANGED << globals, env >> /\ SameLocals(r)

\* ret, frame = cap.read(); if not ret: break
Read(r) ==
  /\ pc[r] = "read"
  /\ \/ /\ nread[r] < srcLen[r]
        /\ nread' = Set(nread, r, nread[r] + 1)
        /\ frame' = Set(frame, r, [n |-> nread[r] + 1, ann |-> FALSE])
        /\ pc' = Set(pc, r, "track")
        /\ hist' = hist
        /\ Fault(0)
     \/ /\ nread[r] >= srcLen[r]
        /\ pc' = Set(pc, r, "finally")
        /\ Fault(0)
        /\ UNCHANGED << nread, frame, hist >>
     \/ \* cap.read() raises
        /\ pc' = Set(pc, r, "except")
        /\ hist' = [hist EXCEPT ![r].failedIn = "read"]
        /\ Fault(1)
        /\ UNCHANGED << nread, frame >>
  /\ UNCHANGED << globals, env, yolo_model, cap, out, attempts, start_time,
                  frame_count, written, returncode, err, temp_path >>

\* (mutant) a frame without results is counted but not written
Track_NoResultNoWrite(r) ==
  /\ pc[r] = "track"
  /\ tracker' = [tracker EXCEPT ![yolo_model[r]] = @ \cup {r}]
  /\ \/ \* len(results) > 0: the annotated frame is the one to write
        /\ frame' = Set(frame, r, [frame[r] EXCEPT !.ann = TRUE])
        /\ pc' = Set(pc, r, "write")
        /\ Fault(0)
        /\ hist' = [hist EXCEPT ![r].foreign =
                       @ \/ (tracker[yolo_model[r]] \ {r} # {})]
     \/ \* no results: the original frame is the one to write
        /\ frame' = frame
        /\ pc' = Set(pc, r, "count")
        /\ Fault(0)
        /\ hist' = [hist EXCEPT ![r].foreign =
                       @ \/ (tracker[yolo_model[r]] \ {r} # {})]
     \/ \* track() or plot() raises
        /\ frame' = frame
        /\ pc' = Set(pc, r, "except")
        /\ Fault(1)
        /\ hist' = [hist EXCEPT ![r].foreign =
                       @ \/ (tracker[yolo_model[r]] \ {r} # {}),
                                ![r].failedAt = frame[r].n,
                                ![r].failedIn = "track"]
  /\ UNCHANGED << model, nModels, fs, now, env, yolo_model, cap, out, attempts,
                  start_time, frame_count, nread, written, returncode, err,
                  temp_path >>

\* results = yolo_model.track(frame, persist=True); results[0].plot(...)
\* persist=True keeps the tracker state inside the model instance.
Track(r) ==
  /\ pc[r] = "track"
  /\ tracker' = [tracker EXCEPT ![yolo_model[r]] = @ \cup {r}]
  /\ \/ \* len(results) > 0: the annotated frame is the one to write
        /\ frame' = Set(frame, r, [frame[r] EXCEPT !.ann = TRUE])
        /\ pc' = Set(pc, r, "write")
        /\ Fault(0)
        /\ hist' = [hist EXCEPT ![r].foreign =
                       @ \/ (tracker[yolo_model[r]] \ {r} # {})]
     \/ \* no results: the original frame is the one to write
        /\ frame' = frame
        /\ pc' = Set(pc, r, "write")
        /\ Fault(0)
        /\ hist' = [hist EXCEPT ![r].foreign =
                       @ \/ (tracker[yolo_model[r]] \ {r} # {})]
     \/ \* track() or plot() raises
        /\ frame' = frame
        /\ pc' = Set(pc, r, "except")
        /\ Fault(1)
        /\ hist' = [hist EXCEPT ![r].foreign =
                       @ \/ (tracker[yolo_model[r]] \ {r} # {}),
                                ![r].failedAt = frame[r].n,
                                ![r].failedIn = "track"]
  /\ UNCHANGED << model, nModels, fs, now, env, yolo_model, cap, out, attempts,
                  start_time, frame_count, nread, written, returncode, err,
                  temp_path >>

\* The frames go to the file this run's writer holds open, wherever a rename
\* has moved it.
AppendFrame(f, r, fr) ==
  [p \in Paths |-> IF f[p].writer = r
                     THEN [f[p] EXCEPT !.frames = Append(@, fr)]
                     ELSE f[p]]

\* (mutant) the frame is put in front of those already written
Write_Prepend(r) ==
  /\ pc[r] = "write"
  /\ \/ /\ fs' = AppendFrame(fs, r, frame[r])
        /\ written' = Set(written, r, <<frame[r]>> \o written[r])
        /\ pc' = Set(pc, r, "count")
        /\ hist' = [hist EXCEPT ![r].late =
                       IF BudgetExceeded(now, start_time[r]) THEN @ + 1 ELSE @]
        /\ Fault(0)
     \/ \* out.write() raises
        /\ pc' = Set(pc, r, "except")
        /\ hist' = [hist EXCEPT ![r].failedAt = frame[r].n,
                                ![r].failedIn = "write"]
        /\ Fault(1)
        /\ UNCHANGED << fs, written >>
  /\ UNCHANGED << model, nModels, tracker, now, env, yolo_model, cap, out,
                  attempts, start_time, frame_count, nread, frame, returncode,
                  err, temp_path >>

\* out.write(annotated_frame) / out.write(frame)
Write(r) ==
  /\ pc[r] = "write"
  /\ \/ /\ fs' = AppendFrame(fs, r, frame[r])
        /\ written' = Set(written, r, Append(written[r], frame[r]))
        /\ pc' = Set(pc, r, "count")
        /\ hist' = [hist EXCEPT ![r].late =
                       IF BudgetExceeded(now, start_time[r]) THEN @ + 1 ELSE @]
        /\ Fault(0)
     \/ \* out.write() raises
        /\ pc' = Set(pc, r, "except")
        /\ hist' = [hist EXCEPT ![r].failedAt = frame[r].n,
                                ![r].failedIn = "write"]
        /\ Fault(1)
        /\ UNCHANGED << fs, written >>
  /\ UNCHANGED << model, nModels, tracker, now, env, yolo_model, cap, out,
                  attempts, start_time, frame_count, nread, frame, returncode,
                  err, temp_path >>

\* frame_count += 1, and round the loop
Count(r) ==
  /\ pc[r] = "count"
  /\ frame_count' = Set(frame_count, r, frame_count[r] + 1)
  /\ pc' = Set(pc, r, "loop_head")
  /\ UNCHANGED << globals, env, faults, hist, yolo_model, cap, out, attempts,
                  start_time, nread, frame, written, returncode, err, temp_path >>

\* (mutant) the handler lets the exception go on to the caller
Except_Propagates(r) ==
  /\ pc[r] = "except"
  /\ pc' = Set(pc, r, "raised")
  /\ cap' = Set(cap, r, "released")
  /\ out' = Set(out, r, "released")
  /\ err' = Set(err, r, "frame_loop")
  /\ UNCHANGED << globals, env, faults, hist, yolo_model, attempts, start_time,
                  frame_count, nread, frame, written, returncode, temp_path >>

\* except Exception as e: print(...)   (the try encloses the whole loop)
Except(r) ==
  /\ pc[r] = "except"
  /\ pc' = Set(pc, r, "finally")
  /\ UNCHANGED << globals, env, faults, hist >> /\ SameLocals(r)

CloseFiles(f, r) ==
  [p \in Paths |-> IF f[p].writer = r THEN [f[p] EXCEPT !.writer = None]
                                      ELSE f[p]]

\* (mutant) out.release() is left out
Finally_SinkLeftOpen(r) ==
  /\ pc[r] = "finally"
  /\ cap' = Set(cap, r, "released")
  /\ UNCHANGED << out, fs >>
  /\ pc' = Set(pc, r, "which")
  /\ UNCHANGED << model, nModels, tracker, now, env, faults, hist, yolo_model, attempts,
                  start_time, frame_count, nread, frame, written, returncode,
                  err, temp_path >>

\* finally: cap.release(); out.release()
Finally(r) ==
  /\ pc[r] = "finally"
  /\ cap' = Set(cap, r, "released")
  /\ out' = Set(out, r, "released")
  /\ fs' = CloseFiles(fs, r)
  /\ pc' = Set(pc, r, "which")
  /\ UNCHANGED << model, nModels, tracker, now, env, faults, hist, yolo_model, attempts,
                  start_time, frame_count, nread, frame, written, returncode,
                  err, temp_path >>

(* --------------------------- transcode (139-179) ---------------------- *)
\* (mutant) the tool is run without asking whether it is there
Which_Unchecked(r) ==
  /\ pc[r] = "which"
  /\ temp_path' = Set(temp_path, r, TempPath(output_path[r]))
  /\ hist' = [hist EXCEPT ![r].transcode = TRUE]
  /\ pc' = Set(pc, r, "rename")
  /\ UNCHANGED << globals, env, faults, yolo_model, cap, out, attempts, start_time,
                  frame_count, nread, frame, written, returncode, err >>

\* if shutil.which('ffmpeg'):  temp_path = output_path.replace(...)
Which(r) ==
  /\ pc[r] = "which"
  /\ IF ffmpegAvail
       THEN /\ temp_path' = Set(temp_path, r, TempPath(output_path[r]))
            /\ hist' = [hist EXCEPT ![r].transcode = TRUE]
            /\ pc' = Set(pc, r, "rename")
       ELSE /\ UNCHANGED << temp_path, hist >>
            /\ pc' = Set(pc, r, "return")
  /\ UNCHANGED << globals, env, faults, yolo_model, cap, out, attempts, start_time,
                  frame_count, nread, frame, written, returncode, err >>

\* os.rename(src, dst): src must exist; dst is replaced; the same path is a no-op.
Renamed(f, src, dst) ==
  IF src = dst THEN f
  ELSE [f EXCEPT ![dst] = f[src], ![src] = NoFile]

\* os.rename(output_path, temp_path)
Rename(r) ==
  /\ pc[r] = "rename"
  /\ IF Exists(fs, output_path[r])
       THEN /\ fs' = Renamed(fs, output_path[r], temp_path[r])
            /\ hist' = [hist EXCEPT ![r].raw = fs[output_path[r]]]
            /\ pc' = Set(pc, r, "ffmpeg")
       ELSE \* FileNotFoundError
            /\ UNCHANGED << fs, hist >>
            /\ pc' = Set(pc, r, "tc_except")
  /\ UNCHANGED << model, nModels, tracker, now, env, faults >> /\ SameLocals(r)

\* What the tool can do for `ffmpeg -i in ... -y outp`: exit 0 having written
\* the re-encoded frames to outp, or exit non-zero having written nothing or a
\* broken file.  It refuses an output that is its input, and a missing input.
ToolOutcomes(f, in, outp) ==
  IF in = outp \/ ~Exists(f, in) THEN {"nonzero"}
  ELSE {"ok", "nonzero", "nonzero_partial"}

Transcoded(r, file) ==
  [id |-> r, kind |-> "h264", frames |-> file.frames, writer |-> None]
Broken(r) ==
  [id |-> r, kind |-> "broken", frames |-> << >>, writer |-> None]

\* result = subprocess.run(cmd, check=False, capture_output=True, text=True)
Ffmpeg(r) ==
  /\ pc[r] = "ffmpeg"
  /\ \E o \in ToolOutcomes(fs, temp_path[r], output_path[r]) :
        /\ fs' = CASE o = "ok" ->
                        [fs EXCEPT ![output_path[r]] = Transcoded(r, fs[temp_path[r]])]
                   [] o = "nonzero_partial" ->
                        [fs EXCEPT ![output_path[r]] = Broken(r)]
                   [] o = "nonzero" -> fs
        /\ returncode' = Set(returncode, r, IF o = "ok" THEN 0 ELSE 1)
        /\ Fault(IF o = "ok" THEN 0 ELSE 1)
        /\ hist' = [hist EXCEPT ![r].tool = IF o = "ok" THEN "ok" ELSE "nonzero"]
  /\ pc' = Set(pc, r, "after_run")
  /\ UNCHANGED << model, nModels, tracker, now, env, yolo_model, cap, out,
                  attempts, start_time, frame_count, nread, frame, written, err,
                  temp_path >>

\* (mutant) the fallback copy is left out
Copied_Nothing(f, r, src, dst) == f

\* shutil.copy2(src, dst): the content of src, in a file at dst.
Copied(f, r, src, dst) ==
  [f EXCEPT ![dst] = [f[src] EXCEPT !.id = r, !.writer = None]]

\* if result.returncode != 0: shutil.copy2(temp_path, output_path)
\* copy2 raises SameFileError for one path, FileNotFoundError for no source.
AfterRun(r) ==
  /\ pc[r] = "after_run"
  /\ IF returncode[r] # 0
       THEN IF temp_path[r] = output_path[r] \/ ~Exists(fs, temp_path[r])
              THEN /\ fs' = fs
                   /\ pc' = Set(pc, r, "tc_except")
              ELSE /\ fs' = Copied(fs, r, temp_path[r], output_path[r])
                   /\ pc' = Set(pc, r, "cleanup")
       ELSE /\ fs' = fs
            /\ pc' = Set(pc, r, "cleanup")
  /\ UNCHANGED << model, nModels, tracker, now, env, faults, hist >> /\ SameLocals(r)

\* if os.path.exists(temp_path): os.remove(temp_path)
Cleanup(r) ==
  /\ pc[r] = "cleanup"
  /\ fs' = IF Exists(fs, temp_path[r])
             THEN [fs EXCEPT ![temp_path[r]] = NoFile] ELSE fs
  /\ pc' = Set(pc, r, "return")
  /\ UNCHANGED << model, nModels, tracker, now, env, faults, hist >> /\ SameLocals(r)

\* except Exception: if exists(temp_path) and not exists(output_path): rename back
TranscodeExcept(r) ==
  /\ pc[r] = "tc_except"
  /\ fs' = IF Exists(fs, temp_path[r]) /\ ~Exists(fs, output_path[r])
             THEN Renamed(fs, temp_path[r], output_path[r]) ELSE fs
  /\ pc' = Set(pc, r, "return")
  /\ UNCHANGED << model, nModels, tracker, now, env, faults, hist >> /\ SameLocals(r)

\* return output_path
Return(r) ==
  /\ pc[r] = "return"
  /\ pc' = Set(pc, r, "returned")
  /\ UNCHANGED << globals, env, faults, hist >> /\ SameLocals(r)

(* ----------------------------- environment ---------------------------- *)
InLoop(r) == pc[r] \in {"loop_head", "read", "track", "write", "count", "except"}
Running(r) == pc[r] \notin {"idle", "returned", "raised"}
Done(r) == pc[r] \in {"returned", "raised"}

\* The wall clock moves on; only the frame loop looks at it.
Tick ==
  /\ \E r \in active : InLoop(r)
  /\ now + ClockStep <= MaxClock
  /\ now' = now + ClockStep
  /\ Fault(1)
  /\ UNCHANGED << model, nModels, tracker, fs, env, pc, hist >>
  /\ UNCHANGED << yolo_model, cap, out, attempts, start_time, frame_count, nread,
                  frame, written, returncode, err, temp_path >>

\* The client of the request goes away while its run is in the frame loop.
ClientDisconnect(r) ==
  /\ InLoop(r) /\ ~hist[r].abort
  /\ hist' = [hist EXCEPT ![r].abort = TRUE]
  /\ Fault(1)
  /\ UNCHANGED << globals, env, pc >> /\ SameLocals(r)

\* The steps of one worker thread.
RunStep(r) ==
  \/ Call(r) \/ GetModelCheck(r) \/ GetModelLoad(r) \/ GetModelReturn(r)
  \/ OpenCap(r) \/ OpenWriterMp4v(r) \/ OpenWriterXvid(r) \/ SinkFail(r)
  \/ StartLoop(r) \/ LoopHead(r) \/ Read(r) \/ Track(r) \/ Write(r) \/ Count(r)
  \/ Except(r) \/ Finally(r)
  \/ Which(r) \/ Rename(r) \/ Ffmpeg(r) \/ AfterRun(r) \/ Cleanup(r)
  \/ TranscodeExcept(r) \/ Return(r)

Step(r) == RunStep(r) \/ ClientDisconnect(r)

Next == Tick \/ \E r \in Runs : Step(r)

Spec == Init /\ [][Next]_vars
SpecConc == InitConc /\ [][Next]_vars

\* A worker thread that can take a step takes one in the end (every call of
\* the loop completes), and the clock advances.
Fairness == WF_vars(Tick) /\ \A r \in Runs : WF_vars(RunStep(r))
SpecFair == InitFair /\ [][Next]_vars /\ Fairness

(* ============================== claims ================================ *)
AfterLoop(r) ==
  pc[r] \in {"finally", "which", "rename", "ffmpeg", "after_run", "cleanup",
             "tc_except", "return", "returned"}
Content(file) == << file.kind, file.frames >>

\* C1: on every way out of process_video (return or raise) the source and
\* every sink that was opened have been released.
C1_ReleasedOnEveryExit ==
  \A r \in Runs : Done(r) => (cap[r] # "open" /\ out[r] # "open")

\* C2: a track/plot/write exception for frame k does not end the frame loop:
\* the loop is left only at the end of the stream or on the time budget.
C2_FailingFrameDoesNotEndLoop ==
  \A r \in Runs :
    (pc[r] = "finally" /\ hist[r].failedIn \in {"track", "write"})
      => (nread[r] >= srcLen[r] \/ BudgetExceeded(now, start_time[r]))

\* C3: the tracking state a run's track() calls read and update is never
\* read or updated by another run, and each run starts from a fresh one.
C3_TrackingContextPerRun ==
  /\ \A m \in ModelIds : Cardinality(tracker[m]) <= 1
  /\ \A r \in Runs : ~hist[r].foreign

\* C4: an input that cannot be opened ends the run with an error that names
\* the source, with no frame read or written, no transcode step and no file
\* at output_path.
C4_SourceOpenFailureSurfaced ==
  \A r \in Runs :
    (Done(r) /\ ~video_ok[r] /\ err[r] # "setup")
      => /\ pc[r] = "raised" /\ err[r] = "source_open"
         /\ nread[r] = 0 /\ written[r] = << >>
         /\ ~hist[r].transcode
         /\ ~Exists(fs, output_path[r])

BothFailed(r) == attempts[r] = << <<"mp4v", "failed">>, <<"XVID", "failed">> >>
FellBack(r) == attempts[r] = << <<"mp4v", "failed">>, <<"XVID", "opened">> >>

\* C5: the sink is opened with mp4v, then XVID, stopping at the first codec
\* that opens; a run that fell back to XVID goes on into the frame loop; the
\* run raises the sink error exactly when both opens failed, and then no
\* frame was read or written, the transcode step did not run and no file was
\* made.
C5_CodecFallback ==
  \A r \in Runs :
    /\ attempts[r] \in { << >>,
                         << <<"mp4v", "opened">> >>, << <<"mp4v", "failed">> >>,
                         << <<"mp4v", "raised">> >>,
                         << <<"mp4v", "failed">>, <<"XVID", "opened">> >>,
                         << <<"mp4v", "failed">>, <<"XVID", "failed">> >>,
                         << <<"mp4v", "failed">>, <<"XVID", "raised">> >> }
    /\ FellBack(r) => (pc[r] = "start_loop" \/ InLoop(r) \/ AfterLoop(r))
    /\ Done(r) => (err[r] = "sink_open" <=> BothFailed(r))
    /\ (pc[r] = "raised" /\ err[r] = "sink_open")
         => /\ nread[r] = 0 /\ written[r] = << >> /\ frame_count[r] = 0
            /\ ~hist[r].transcode
            /\ \A p \in Paths : fs[p].id # r

C5_Witness ==
  \E r \in Runs : FellBack(r) /\ pc[r] = "returned" /\ Len(written[r]) >= 1

\* C6: the budget is checked before every read and is exceeded only by more
\* than TIMEOUT_LIMIT seconds; once a check finds it exceeded the run reads,
\* annotates and writes nothing more, releases source and sink, and returns
\* normally with every frame it wrote still in the file at output_path.
C6_State ==
  \A r \in Runs :
    /\ pc[r] \in {"read", "track", "write", "count"}
         => (~hist[r].timedOut /\ hist[r].lastCheck <= TIMEOUT_LIMIT)
    /\ hist[r].timedOut
         => /\ hist[r].lastCheck > TIMEOUT_LIMIT
            /\ AfterLoop(r)
            /\ err[r] = "none"
            /\ frame_count[r] = Len(written[r])
    /\ (hist[r].timedOut /\ pc[r] = "returned")
         => /\ cap[r] = "released" /\ out[r] = "released"
            /\ Exists(fs, output_path[r])
            /\ fs[output_path[r]].frames = written[r]

C6_Step ==
  \A r \in Runs :
    hist[r].timedOut => (nread'[r] = nread[r] /\ written'[r] = written[r])

C6_BudgetStop == []C6_State /\ [][C6_Step]_vars

C6_Witness ==
  \E r \in Runs :
    hist[r].timedOut /\ pc[r] = "returned" /\ Len(written[r]) >= 1
      /\ nread[r] < srcLen[r]

\* C7: the run looks at its caller's cancellation signal once per frame, so
\* no frame is read in an iteration that began after the client went away.
C7_AbortStopsLoop ==
  \A r \in Runs : pc[r] = "read" => ~hist[r].abortAtHead

\* C8: when the transcode step is over, whether the tool exited zero or not,
\* a file is at output_path and none is at the temporary path.
C8_OneFileNoTemp ==
  \A r \in Runs :
    (pc[r] = "returned" /\ hist[r].tool \in {"ok", "nonzero"})
      => (Exists(fs, output_path[r]) /\ ~Exists(fs, temp_path[r]))

\* C9: after a non-zero exit of the tool the file at output_path holds the
\* raw output of the frame loop, whatever the tool left there, and the run
\* returns normally.
C9_FallbackKeepsRaw ==
  \A r \in Runs :
    hist[r].tool = "nonzero"
      => /\ pc[r] \in {"after_run", "cleanup", "tc_except", "return", "returned"}
         /\ err[r] = "none"
         /\ pc[r] \in {"return", "returned"}
              => /\ Content(fs[output_path[r]]) = Content(hist[r].raw)
                 /\ Content(fs[output_path[r]]) = << "raw", written[r] >>

C9_Witness ==
  \E r \in Runs :
    /\ hist[r].tool = "nonzero" /\ pc[r] = "returned"
    /\ temp_path[r] # output_path[r]
    /\ Len(written[r]) >= 1

\* C10: without the tool the transcode step does nothing: the file at
\* output_path is the raw output as the writer left it, no other file has
\* been made, and the run returns normally.
C10_NoToolNoChange ==
  \A r \in Runs :
    (~ffmpegAvail /\ AfterLoop(r) /\ pc[r] # "finally")
      => /\ pc[r] \in {"which", "return", "returned"}
         /\ err[r] = "none"
         /\ ~hist[r].transcode /\ temp_path[r] = << >>
         /\ fs[output_path[r]] =
              [id |-> r, kind |-> "raw", frames |-> written[r], writer |-> None]
         /\ \A p \in Paths \ {output_path[r]} : ~Exists(fs, p)

C10_Witness ==
  \E r \in Runs : ~ffmpegAvail /\ pc[r] = "returned" /\ Len(written[r]) >= 1

Closed(r) ==
  /\ pc[r] \in {"which", "rename", "ffmpeg", "after_run", "cleanup",
                "tc_except", "return", "returned"}
  /\ cap[r] = "released" /\ out[r] = "released"

\* C11: a run that opened its sink leaves the frame loop and gets closed,
\* given that its steps complete and the clock advances.  The loop is left
\* only at the end of the stream, on a budget check that finds the budget
\* exceeded, or on an exception; at most one frame is written after the
\* budget has run out; and the frame count the container reports is not the
\* loop bound: a loop left at the end of the stream has read every frame.
C11_State ==
  \A r \in Runs :
    /\ hist[r].late <= 1
    /\ pc[r] = "finally"
         => (hist[r].timedOut \/ hist[r].failedIn # "none" \/ nread[r] = srcLen[r])
    /\ (AfterLoop(r) /\ ~hist[r].timedOut /\ hist[r].failedIn = "none")
         => nread[r] = srcLen[r]

C11_LoopEnds ==
  /\ \A r \in Runs : (pc[r] = "start_loop") ~> Closed(r)
  /\ []C11_State

C11_Witness ==
  \E r \in Runs :
    /\ Closed(r) /\ hist[r].timedOut /\ hist[r].late = 1
    /\ estimate[r] = 0 /\ nread[r] < srcLen[r]

\* C12: a normal return hands the caller a file at output_path with at least
\* one frame in it; a run that wrote no frame ends with an error instead.
\* Stated for the inputs that open (C4 has those that do not).
C12_NoEmptySuccess ==
  \A r \in Runs :
    video_ok[r]
      => /\ pc[r] = "returned"
              => /\ Exists(fs, output_path[r])
                 /\ Len(fs[output_path[r]].frames) >= 1
         /\ (Done(r) /\ written[r] = << >>) => pc[r] = "raised"

\* C13: frames are written in source order, each once, one at a time: the
\* frames written are frames 1, 2, ... of the source, and frame N is written
\* before frame N+1 is read.
C13_WrittenInSourceOrder ==
  \A r \in Runs :
    /\ Len(written[r]) <= nread[r]
    /\ nread[r] - Len(written[r]) <= 1
    /\ \A i \in 1..Len(written[r]) : written[r][i].n = i
    /\ pc[r] = "read" => Len(written[r]) = nread[r]
    /\ pc[r] \in {"track", "write"}
         => (frame[r].n = nread[r] /\ Len(written[r]) = nread[r] - 1)
    /\ out[r] = "open" => fs[output_path[r]].frames = written[r]

C13_Witness ==
  \E r \in Runs : pc[r] = "read" /\ Len(written[r]) >= 2 /\ nread[r] < srcLen[r]

\* C14: an exception of the budget check or of cap.read() does not leave
\* process_video: the run releases source and sink, keeps the frames it has
\* written, runs the transcode step where the tool is there and returns
\* output_path.
C14_LoopFaultDrains ==
  \A r \in Runs :
    hist[r].failedIn \in {"check", "read"}
      => /\ pc[r] = "except" \/ AfterLoop(r)
         /\ err[r] = "none"
         /\ frame_count[r] = Len(written[r])
         /\ (AfterLoop(r) /\ pc[r] # "finally")
              => (cap[r] = "released" /\ out[r] = "released")
         /\ pc[r] = "returned"
              => /\ hist[r].transcode = ffmpegAvail
                 /\ Exists(fs, output_path[r])
                 /\ fs[output_path[r]].frames = written[r]

C14_Witness ==
  \E r \in Runs :
    /\ hist[r].failedIn = "read" /\ pc[r] = "returned"
    /\ hist[r].transcode /\ Len(written[r]) >= 1

\* C15 as stated: at every point of the frame loop and at its exit
\* frame_count is the number of completed writes, and at most the number of
\* frames read and the true frame count.
C15_CountIsWritesEverywhere ==
  \A r \in Runs :
    /\ frame_count[r] = Len(written[r])
    /\ frame_count[r] <= nread[r] /\ nread[r] <= srcLen[r]

\* C15 as amended: frame_count is the number of completed writes at every
\* point but the one between out.write() and frame_count += 1, where it is one
\* less; it never exceeds the frames read nor the true frame count; every
\* frame processed without an exception is written once (annotated, or the
\* original when there are no results) and counted once.
C15_CountTracksWrites ==
  \A r \in Runs :
    /\ frame_count[r] = Len(written[r]) - (IF pc[r] = "count" THEN 1 ELSE 0)
    /\ frame_count[r] <= nread[r] /\ nread[r] <= srcLen[r]
    /\ \A i \in 1..Len(written[r]) : written[r][i].n = i
    /\ (pc[r] = "loop_head" /\ hist[r].failedIn = "none")
         => (frame_count[r] = nread[r] /\ Len(written[r]) = nread[r])

C15_Witness ==
  \E r \in Runs :
    /\ pc[r] = "loop_head" /\ frame_count[r] >= 2
    /\ \E i \in 1..Len(written[r]) : ~written[r][i].ann
    /\ \E i \in 1..Len(written[r]) : written[r][i].ann

\* The paths a run opens, renames, transcodes into or deletes, and the part
\* of the run in which it does.
PathsOf(r) == { output_path[r], TempPath(output_path[r]) }
UsesFiles(r) ==
  \/ out[r] = "open"
  \/ pc[r] \in {"which", "rename", "ffmpeg", "after_run", "cleanup", "tc_except"}

\* C16: two runs that overlap never work on the same output path or the
\* same temporary path.
C16_DisjointPaths ==
  \A r1, r2 \in Runs :
    (r1 # r2 /\ UsesFiles(r1) /\ UsesFiles(r2))
      => PathsOf(r1) \cap PathsOf(r2) = {}

\* C17: the model constructor runs at most once, and every get_model call
\* returns the same instance.
C17_ModelLoadedOnce ==
  /\ nModels <= 1
  /\ \A r1, r2 \in Runs :
       (yolo_model[r1] # None /\ yolo_model[r2] # None)
         => yolo_model[r1] = yolo_model[r2]

\* C18: the transcode step (the rename, the tool) runs only with the run's
\* source and sink released, whichever way the frame loop was left.
C18_TranscodeAfterDrain ==
  \A r \in Runs :
    (hist[r].transcode \/ pc[r] \in {"which", "rename", "ffmpeg", "after_run",
                                      "cleanup", "tc_except"})
      => /\ cap[r] = "released" /\ out[r] = "released"
         /\ \A p \in Paths : fs[p].writer # r

C18_Witness ==
  \E r \in Runs :
    /\ pc[r] = "ffmpeg" /\ hist[r].failedIn = "track" /\ Len(written[r]) >= 1
====
